---- MODULE Spec2Model ----
(***************************************************************************)
(* A model of esh, the ToaruOS "experimental shell" (src/apps/sh.c):       *)
(* the lexer, the planner and the process executor of shell_exec, the     *)
(* command table, and main's read/execute loop, together with the part    *)
(* of the operating system the executor talks to (fork, pipe, dup2,       *)
(* close, waitpid, tcsetpgrp, signals).                                   *)
(*                                                                         *)
(* A C string is a sequence of one-character strings; a NULL pointer is    *)
(* the value NULL.  C arrays are indexed from 0, sequences from 1: the     *)
(* entry argv[i] of the code is argv[i + 1] here.                          *)
(*                                                                         *)
(* Of the operating system the model takes that fork, pipe and open        *)
(* succeed, that tcsetpgrp stores the pid it is given, that the wait       *)
(* status of a child that exits is its exit code (the code stores it in    *)
(* last_ret as it is), and that a forked child finds the working directory *)
(* and environment the shell has when the child runs its command, and     *)
(* that fgets at the end of a file leaves the buffer as it was.  The       *)
(* script loop's read at the end of the file is the step ScriptEof.        *)
(***************************************************************************)
EXTENDS Integers, Sequences, FiniteSets, TLC

(***************************************************************************)
(* Strings                                                                 *)
(***************************************************************************)
\* A NULL char pointer: no C string equals it (every character has length 1).
NULL == <<"NULL">>

\* The byte 0xFF of the sentinel tokens.
XFF == "\\xFF"

PIPE_TOKEN == <<XFF, XFF, "P", "I", "P", "E", XFF, XFF>>

STAR_TOKEN == <<XFF, XFF, "S", "T", "A", "R", XFF, XFF>>

WRITE_TOKEN == <<XFF, XFF, "W", "R", "I", "T", "E", XFF, XFF>>

O_TRUNC_MODE == "O_WRONLY|O_CREAT|O_TRUNC"

O_APPEND_MODE == "O_WRONLY|O_CREAT|O_APPEND"

Digit == {"0", "1", "2", "3", "4", "5", "6", "7", "8", "9"}

Upper == {"A", "B", "C", "D", "E", "F", "G", "H", "I", "J", "K", "L", "M",
          "N", "O", "P", "Q", "R", "S", "T", "U", "V", "W", "X", "Y", "Z"}

Lower == {"a", "b", "c", "d", "e", "f", "g", "h", "i", "j", "k", "l", "m",
          "n", "o", "p", "q", "r", "s", "t", "u", "v", "w", "x", "y", "z"}

DigitChar(d) == CASE d = 0 -> "0" [] d = 1 -> "1" [] d = 2 -> "2" [] d = 3 -> "3"
                  [] d = 4 -> "4" [] d = 5 -> "5" [] d = 6 -> "6" [] d = 7 -> "7"
                  [] d = 8 -> "8" [] d = 9 -> "9"

DigitVal(c) == CHOOSE d \in 0..9 : DigitChar(d) = c

RECURSIVE Decimal(_)
\* sprintf(tmp, "%d", n)
Decimal(n) == IF n < 0 THEN <<"-">> \o Decimal(0 - n)
              ELSE IF n < 10 THEN <<DigitChar(n)>>
              ELSE Decimal(n \div 10) \o <<DigitChar(n % 10)>>

variable_char(c) == c \in Upper \cup Lower \cup Digit \cup {"_", "?"}

is_number(s) == \A k \in 1..Len(s) : s[k] \in Digit

RECURSIVE atoi(_)
\* atoi of a string of digits
atoi(s) == IF Len(s) = 0 THEN 0
           ELSE 10 * atoi(SubSeq(s, 1, Len(s) - 1)) + DigitVal(s[Len(s)])

\* strstr(s, t): the index of the first occurrence of t in s, 0 when there is none
strstr(s, t) ==
    LET hits == {k \in 1..(Len(s) - Len(t) + 1) : SubSeq(s, k, k + Len(t) - 1) = t}
    IN  IF hits = {} THEN 0 ELSE CHOOSE k \in hits : \A m \in hits : k <= m

\* strchr(s, c) != NULL
strchr(s, c) == \E k \in 1..Len(s) : s[k] = c

(***************************************************************************)
(* The lexer of shell_exec (sh.c 475-682).  The interpreter state it reads *)
(* is the record sh: last_ret, shell_argv (shell_argc is its length), the  *)
(* environment environ (a function from names to values) and var_garbage, *)
(* the content of the uninitialised array var when no character of a name  *)
(* was stored in it.                                                       *)
(***************************************************************************)
\* The lexer's locals at entry (sh.c 475-484).
LexInit == [quoted |-> "", backtick |-> FALSE, buffer_ |-> <<>>,
            args |-> <<>>, have_star |-> FALSE]

\* The label _just_add (sh.c 638-643).
just_add(st, c) == [st EXCEPT !.backtick = FALSE, !.buffer_ = Append(@, c)]

\* The default case (sh.c 632-643): an escaped ordinary character keeps its backslash.
default_char(st, c) ==
    just_add(IF st.backtick THEN [st EXCEPT !.buffer_ = Append(@, "\\")] ELSE st, c)

\* The label _new_arg (sh.c 646-653).
new_arg(st) ==
    IF Len(st.buffer_) > 0
    THEN [st EXCEPT !.backtick = FALSE, !.args = Append(@, st.buffer_),
                    !.buffer_ = <<>>, !.have_star = FALSE]
    ELSE [st EXCEPT !.backtick = FALSE]

\* An operator character | or > outside quotes (sh.c 609-626).
operator_char(st, token) ==
    new_arg([st EXCEPT !.args = IF Len(st.buffer_) > 0 THEN Append(@, st.buffer_) ELSE @,
                       !.buffer_ = token])

RECURSIVE brace_end(_, _)
\* ${NAME}: the index of the first '}' or of the end of the buffer from p on (sh.c 504-509)
brace_end(buf, p) == IF p > Len(buf) \/ buf[p] = "}" THEN p ELSE brace_end(buf, p + 1)

RECURSIVE name_end(_, _)
\* $NAME: the index just after the run of variable characters from p on (sh.c 514-523)
name_end(buf, p) ==
    IF p <= Len(buf) /\ variable_char(buf[p]) THEN name_end(buf, p + 1) ELSE p

\* A variable reference whose '$' is at p - 1: the name read and where lexing
\* resumes (sh.c 499-524).
read_var(buf, p, sh) ==
    IF p <= Len(buf) /\ buf[p] = "{"
    THEN LET e == brace_end(buf, p + 1)
         IN  [var  |-> IF e > p + 1 THEN SubSeq(buf, p + 1, e - 1) ELSE sh.var_garbage,
              next |-> IF e <= Len(buf) THEN e + 1 ELSE e]
    ELSE LET e == name_end(buf, p)
         IN  [var  |-> IF e > p THEN SubSeq(buf, p, e - 1) ELSE sh.var_garbage,
              next |-> e]

\* The text a name expands to, NULL when it has none (sh.c 525-538).
var_value(var, sh) ==
    IF var = <<"?">> THEN Decimal(sh.last_ret)
    ELSE IF is_number(var)
         THEN IF atoi(var) < Len(sh.shell_argv) THEN sh.shell_argv[atoi(var) + 1] ELSE NULL
         ELSE IF var \in DOMAIN sh.environ THEN sh.environ[var] ELSE NULL

\* A substitution that starts the word again instead of extending it.
expand_restart(st, c) ==
    IF c = NULL THEN st ELSE [st EXCEPT !.backtick = FALSE, !.buffer_ = c]

\* The substitution is appended to the word in progress (sh.c 540-547).
expand(st, c) ==
    IF c = NULL THEN st ELSE [st EXCEPT !.backtick = FALSE, !.buffer_ = @ \o c]

RECURSIVE scan(_, _, _, _)
\* The loop while (*p) over one physical line (sh.c 488-657); the result is
\* the lexer state at the label _done.
scan(st, buf, p, sh) ==
    IF p > Len(buf) THEN st
    ELSE LET c == buf[p] IN
      CASE c = "$" ->
             IF st.quoted = "'" \/ st.backtick THEN scan(just_add(st, c), buf, p + 1, sh)
             ELSE LET v == read_var(buf, p + 1, sh)
                  IN  scan(expand(st, var_value(v.var, sh)), buf, v.next, sh)
        [] c \in {"\"", "'"} ->
             IF st.quoted = c
             THEN IF st.backtick THEN scan(just_add(st, c), buf, p + 1, sh)
                  ELSE scan([st EXCEPT !.quoted = ""], buf, p + 1, sh)
             ELSE IF st.quoted = "" THEN scan([st EXCEPT !.quoted = c], buf, p + 1, sh)
             ELSE scan(just_add(st, c), buf, p + 1, sh)
        [] c = "*" ->
             IF st.quoted # "" \/ st.backtick \/ st.have_star
             THEN scan(just_add(st, c), buf, p + 1, sh)
             ELSE scan([st EXCEPT !.have_star = TRUE, !.buffer_ = @ \o STAR_TOKEN],
                       buf, p + 1, sh)
        [] c = "\\" ->
             IF st.quoted = "'" \/ st.backtick THEN scan(just_add(st, c), buf, p + 1, sh)
             ELSE scan([st EXCEPT !.backtick = TRUE], buf, p + 1, sh)
        [] c = " " ->
             IF st.backtick THEN scan(just_add(st, c), buf, p + 1, sh)
             ELSE IF st.quoted = "" THEN scan(new_arg(st), buf, p + 1, sh)
             ELSE scan(just_add(st, c), buf, p + 1, sh)
        [] c = "\n" ->
             IF st.quoted = "" THEN st ELSE scan(just_add(st, c), buf, p + 1, sh)
        [] c = "|" ->
             IF st.quoted = "" /\ ~st.backtick
             THEN scan(operator_char(st, PIPE_TOKEN), buf, p + 1, sh)
             ELSE scan(just_add(st, c), buf, p + 1, sh)
        [] c = ">" ->
             IF st.quoted = "" /\ ~st.backtick
             THEN scan(operator_char(st, WRITE_TOKEN), buf, p + 1, sh)
             ELSE scan(just_add(st, c), buf, p + 1, sh)
        [] c = "#" ->
             IF st.quoted = "" /\ ~st.backtick /\ Len(st.buffer_) = 0 THEN st
             ELSE scan(just_add(st, c), buf, p + 1, sh)
        [] OTHER -> scan(default_char(st, c), buf, p + 1, sh)

\* One pass of the outer loop over the buffer, from the lexer state st.
lex_line(st, buf, sh) == scan(st, buf, 1, sh)

\* The token list once the line is complete (sh.c 676-681).
lex_finish(st) == IF Len(st.buffer_) > 0 THEN Append(st.args, st.buffer_) ELSE st.args

(***************************************************************************)
(* The planner of shell_exec (sh.c 684-808).  The arrays indexed by cmdi   *)
(* (output_files, file_args, argcs, arg_starts) are sequences whose entry  *)
(* cmdi + 1 is the code's entry cmdi; arg_starts holds positions in argv.  *)
(* dirents is what readdir yields for ".", in enumeration order.           *)
(***************************************************************************)
\* The planner's locals before the first token (sh.c 684-691).
PlanInit == [argv |-> <<>>, cmdi |-> 0, arg_starts |-> <<1>>, output_files |-> <<NULL>>,
             file_args |-> <<0>>, argcs |-> <<0>>, next_is_file |-> 0]

\* argv[i] = s; i++; argcs[cmdi]++ (sh.c 753-755, 773-775, 782-784, 787-789)
push_arg(pl, s) ==
    [pl EXCEPT !.argv = Append(@, s), !.argcs[pl.cmdi + 1] = @ + 1]

\* A match that lets the prefix and the suffix share characters of the name.
glob_entry_overlapping(s, before, after) ==
    /\ s[1] # "."
    /\ Len(s) >= Len(before) /\ SubSeq(s, 1, Len(before)) = before
    /\ Len(s) >= Len(after) /\ SubSeq(s, Len(s) - Len(after) + 1, Len(s)) = after

\* Whether a directory entry passes the glob before*after (sh.c 738-762).
glob_entry(s, before, after) ==
    /\ s[1] # "."
    /\ Len(before) > 0 => /\ Len(s) >= Len(before)
                          /\ SubSeq(s, 1, Len(before)) = before
    /\ Len(after) > 0 =>
         LET t == IF Len(before) > 0 THEN SubSeq(s, Len(before) + 1, Len(s)) ELSE s
         IN  /\ Len(t) >= Len(after)
             /\ SubSeq(t, Len(t) - Len(after) + 1, Len(t)) = after

RECURSIVE push_all(_, _)
push_all(pl, names) ==
    IF names = <<>> THEN pl ELSE push_all(push_arg(pl, Head(names)), Tail(names))

\* A token holding STAR_TOKEN at index g (sh.c 719-785).
glob_token(pl, c, g, dirents) ==
    LET before == SubSeq(c, 1, g - 1)
        after  == SubSeq(c, g + Len(STAR_TOKEN), Len(c))
        found  == SelectSeq(dirents, LAMBDA s : glob_entry(s, before, after))
    IN  IF Len(before) = 0 \/ ~strchr(before, "/")
        THEN IF found = <<>>
             THEN push_arg(pl, before \o <<"*">> \o after)
             ELSE push_all(pl, found)
        ELSE push_arg(pl, before \o <<"*">>)

\* The body of foreach(node, args) for the token c (sh.c 693-790).
plan_token(pl, c, dirents) ==
    IF pl.next_is_file # 0
    THEN IF pl.next_is_file = 1 /\ c = WRITE_TOKEN
         THEN [pl EXCEPT !.next_is_file = 2, !.file_args[pl.cmdi + 1] = O_APPEND_MODE]
         ELSE [pl EXCEPT !.output_files[pl.cmdi + 1] = c]
    ELSE IF c = WRITE_TOKEN
    THEN [pl EXCEPT !.next_is_file = 1, !.file_args[pl.cmdi + 1] = O_TRUNC_MODE]
    ELSE IF c = PIPE_TOKEN
    THEN [pl EXCEPT !.argv = Append(@, NULL), !.cmdi = @ + 1,
                    !.arg_starts = Append(@, Len(pl.argv) + 2),
                    !.output_files = Append(@, NULL), !.file_args = Append(@, 0),
                    !.argcs = Append(@, 0)]
    ELSE IF strstr(c, STAR_TOKEN) # 0
    THEN glob_token(pl, c, strstr(c, STAR_TOKEN), dirents)
    ELSE push_arg(pl, c)

RECURSIVE plan_tokens(_, _, _)
plan_tokens(pl, args, dirents) ==
    IF args = <<>> THEN pl
    ELSE plan_tokens(plan_token(pl, Head(args), dirents), Tail(args), dirents)

\* The plan of a token list: the planner's locals after the loop, with i the
\* number of argv entries written before the terminating NULL (sh.c 692-792).
shell_plan(args, dirents) ==
    LET pl == plan_tokens(PlanInit, args, dirents)
    IN  [argv |-> Append(pl.argv, NULL), i |-> Len(pl.argv), cmdi |-> pl.cmdi,
         arg_starts |-> pl.arg_starts, output_files |-> pl.output_files,
         file_args |-> pl.file_args, argcs |-> pl.argcs]

\* argv[tokenid-1] = NULL when it is "&" (sh.c 805-808).
strip_background(plan) == [plan EXCEPT !.argv[plan.i] = NULL]

RECURSIVE c_array(_, _)
\* The NULL-terminated array that starts at position k of argv.
c_array(argv, k) ==
    IF k > Len(argv) \/ argv[k] = NULL THEN <<>> ELSE <<argv[k]>> \o c_array(argv, k + 1)

\* What run_cmd(arg_starts[j]) receives for stage j.
stage_args(plan, j) == c_array(plan.argv, plan.arg_starts[j + 1])

(***************************************************************************)
(* The command table (sh.c 47-85, 878-920, 1101-1107).  An entry is a      *)
(* record [name, func]; func is the handler's name, or "NULL" for the      *)
(* entries add_path_contents installs.                                     *)
(***************************************************************************)
Alphabet == <<"a", "b", "c", "d", "e", "f", "g", "h", "i", "j", "k", "l", "m",
              "n", "o", "p", "q", "r", "s", "t", "u", "v", "w", "x", "y", "z">>

\* The byte order strcmp compares by, for the lower-case letters names are made of.
CharCode(c) == CHOOSE k \in 1..Len(Alphabet) : Alphabet[k] = c

RECURSIVE strcmp_le(_, _)
\* strcmp(a, b) <= 0
strcmp_le(a, b) ==
    IF a = <<>> THEN TRUE
    ELSE IF b = <<>> THEN FALSE
    ELSE IF a[1] = b[1] THEN strcmp_le(Tail(a), Tail(b))
    ELSE CharCode(a[1]) < CharCode(b[1])

\* shell_install_command, below the table's capacity (sh.c 67-76).
shell_install_command(table, name, func) == Append(table, [name |-> name, func |-> func])

\* install_commands (sh.c 1101-1107).
install_commands ==
    LET t1 == shell_install_command(<<>>, <<"c", "d">>, "shell_cmd_cd")
        t2 == shell_install_command(t1, <<"e", "x", "i", "t">>, "shell_cmd_exit")
        t3 == shell_install_command(t2, <<"e", "x", "p", "o", "r", "t">>, "shell_cmd_export")
        t4 == shell_install_command(t3, <<"h", "e", "l", "p">>, "shell_cmd_help")
    IN  shell_install_command(t4, <<"h", "i", "s", "t", "o", "r", "y">>, "shell_cmd_history")

RECURSIVE add_path_contents(_, _)
\* add_path_contents for the entries readdir yields (sh.c 878-895).
add_path_contents(table, ents) ==
    IF ents = <<>> THEN table
    ELSE add_path_contents(
             IF Head(ents)[1] # "."
             THEN shell_install_command(table, Head(ents), "NULL") ELSE table,
             Tail(ents))

RECURSIVE sorted_orders(_, _)
\* The sequences that list the entries with indices idx in non-decreasing name order.
sorted_orders(table, idx) ==
    IF idx = {} THEN {<<>>}
    ELSE UNION {{<<table[m]>> \o r : r \in sorted_orders(table, idx \ {m})} :
                  m \in {a \in idx : \A b \in idx : strcmp_le(table[a].name, table[b].name)}}

\* The orders qsort may leave the table in: it compares names only, and the
\* order of entries with equal names is unspecified (sh.c 903-920).
sort_commands(table) == sorted_orders(table, 1..Len(table))

RECURSIVE find_from(_, _, _)
find_from(table, str, k) ==
    IF k > Len(table) THEN "NULL"
    ELSE IF table[k].name = str THEN table[k].func
    ELSE find_from(table, str, k + 1)

\* shell_find: the handler of the first entry with that name (sh.c 78-85).
shell_find(table, str) == find_from(table, str, 1)

(***************************************************************************)
(* The builtin handlers (sh.c 1036-1099).  A handler's outcome is a record *)
(* [ret, cwd, environ, fate]: fate is "return", "exit" (the process called *)
(* exit(ret)) or "crash".  Directories is the set of paths chdir accepts.  *)
(***************************************************************************)
Directories == {<<"t">>}

HOME == <<"H", "O", "M", "E">>

\* atoi of an argument: the value of a digit string, 0 for the other arguments used here.
arg_atoi(s) == IF Len(s) > 0 /\ is_number(s) THEN atoi(s) ELSE 0

\* The index of the first '=' of s, 0 when it has none.
eq_index(s) == strstr(s, <<"=">>)

\* shell_cmd_cd.  A NULL argv[1] (argc counts a stripped "&") reaches chdir,
\* which fails, and then printf's %s.
shell_cmd_cd(argc, argv, dir, env) ==
    IF argc > 1
    THEN IF Len(argv) < 2
         THEN {[ret |-> 1, cwd |-> dir, environ |-> env, fate |-> "return"],
               [ret |-> 0, cwd |-> dir, environ |-> env, fate |-> "crash"]}
         ELSE IF argv[2] \in Directories
         THEN {[ret |-> 0, cwd |-> argv[2], environ |-> env, fate |-> "return"]}
         ELSE {[ret |-> 1, cwd |-> dir, environ |-> env, fate |-> "return"]}
    ELSE IF HOME \in DOMAIN env /\ env[HOME] \in Directories
         THEN {[ret |-> 0, cwd |-> env[HOME], environ |-> env, fate |-> "return"]}
         ELSE {[ret |-> 1, cwd |-> dir, environ |-> env, fate |-> "return"],
               [ret |-> 0, cwd |-> dir, environ |-> env, fate |-> "crash"]}

\* shell_cmd_export: putenv(argv[1]).
shell_cmd_export(argc, argv, dir, env) ==
    IF argc > 1
    THEN IF Len(argv) < 2
         THEN {[ret |-> 0, cwd |-> dir, environ |-> env, fate |-> "crash"]}
         ELSE LET e == eq_index(argv[2])
                  name == SubSeq(argv[2], 1, e - 1)
                  val  == SubSeq(argv[2], e + 1, Len(argv[2]))
              IN  {[ret |-> 0, cwd |-> dir, fate |-> "return",
                    environ |-> IF e = 0 THEN env
                                ELSE [v \in DOMAIN env \cup {name} |->
                                         IF v = name THEN val ELSE env[v]]]}
    ELSE {[ret |-> 0, cwd |-> dir, environ |-> env, fate |-> "return"]}

\* shell_cmd_exit: exit(atoi(argv[1])) or exit(0).
shell_cmd_exit(argc, argv, dir, env) ==
    IF argc > 1
    THEN IF Len(argv) < 2
         THEN {[ret |-> 0, cwd |-> dir, environ |-> env, fate |-> "crash"]}
         ELSE {[ret |-> arg_atoi(argv[2]), cwd |-> dir, environ |-> env, fate |-> "exit"]}
    ELSE {[ret |-> 0, cwd |-> dir, environ |-> env, fate |-> "exit"]}

\* The call func(argc, argv) of a handler found in the table.
call_builtin(func, argc, argv, dir, env) ==
    CASE func = "shell_cmd_cd" -> shell_cmd_cd(argc, argv, dir, env)
      [] func = "shell_cmd_export" -> shell_cmd_export(argc, argv, dir, env)
      [] func = "shell_cmd_exit" -> shell_cmd_exit(argc, argv, dir, env)
      [] OTHER -> {[ret |-> 0, cwd |-> dir, environ |-> env, fate |-> "return"]}

(***************************************************************************)
(* What shell_exec decides before it forks (sh.c 453-861).  An outcome is  *)
(* a record of kind "continue" (another physical line is read, the lexer   *)
(* state kept), "return" (shell_exec returns ret), "crash" (undefined      *)
(* behaviour ended the shell), "builtin" (the handler of the single stage  *)
(* is called in the shell) or "spawn" (children are forked for plan).      *)
(***************************************************************************)
AMP == <<"&">>

EmptyPlan == shell_plan(<<>>, <<>>)

Outcome(kind, ret, pl, bg) == [kind |-> kind, ret |-> ret, plan |-> pl, nowait |-> bg]

\* The choice between pipeline, builtin and single child (sh.c 810-861).
\* shell_find(NULL) passes NULL to strcmp: the shell crashes, or no name matches.
dispatch(table, pl, bg) ==
    IF pl.cmdi > 0 THEN {Outcome("spawn", 0, pl, bg)}
    ELSE IF pl.argv[pl.arg_starts[1]] = NULL
    THEN {Outcome("crash", 0, EmptyPlan, FALSE), Outcome("spawn", 0, pl, bg)}
    ELSE IF shell_find(table, pl.argv[pl.arg_starts[1]]) # "NULL"
    THEN {Outcome("builtin", 0, pl, bg)}
    ELSE {Outcome("spawn", 0, pl, bg)}

\* From the end of the lexer's loop on (sh.c 676-861).  strcmp(argv[tokenid-1], "&")
\* on a NULL entry crashes the shell or compares unequal.
plan_and_dispatch(table, st, dirents) ==
    LET pl == shell_plan(lex_finish(st), dirents)
    IN  IF pl.i = 0 THEN {Outcome("return", 0 - 1, EmptyPlan, FALSE)}
        ELSE IF pl.argv[pl.i] = NULL
        THEN {Outcome("crash", 0, EmptyPlan, FALSE)} \cup dispatch(table, pl, FALSE)
        ELSE IF pl.argv[pl.i] = AMP
        THEN dispatch(table, strip_background(pl), TRUE)
        ELSE dispatch(table, pl, FALSE)

\* The lexer's result at _done (sh.c 659-682).
after_lex(table, st, mode, dirents) ==
    IF st.quoted # ""
    THEN IF mode = 0 THEN {Outcome("return", 127, EmptyPlan, FALSE)}
         ELSE {Outcome("continue", 0, EmptyPlan, FALSE)}
    ELSE plan_and_dispatch(table, st, dirents)

RECURSIVE count_token(_, _)
\* The number of entries of a token list equal to tok.
count_token(args, tok) ==
    IF args = <<>> THEN 0
    ELSE (IF Head(args) = tok THEN 1 ELSE 0) + count_token(Tail(args), tok)

(***************************************************************************)
(* Bounds and inputs of the model.                                         *)
(***************************************************************************)
\* The most children the shell has at once; a line that would need more is not read.
MaxProcs == 3

\* The most continuation lines read for one logical line.
MaxContinued == 1

\* The texts of a stage: an external program x, the builtin cd, nothing.
StageTexts == {<<"x">>, <<"c", "d", " ", "t">>, <<>>}

RECURSIVE pipelines(_)
\* The lines of n stage texts joined by '|'.
pipelines(n) ==
    IF n = 1 THEN StageTexts
    ELSE {a \o <<"|">> \o b : a \in pipelines(n - 1), b \in StageTexts}

\* Lines in the background, a lone background marker, a name n that is no
\* program, three stages, redirections.
ExecLines == {<<"x", " ", "&">>, <<"x", "|", "x", " ", "&">>, <<"&">>, <<"n">>,
              <<"x", "|", "x", "|", "x">>, <<"x", ">", "f", " ", "y">>,
              <<"x", ">", ">", "f">>, <<"c", "d", " ", "t", ">", "f", "|", "x">>}

\* Lines that reach the other paths of shell_exec: a history reference, an open
\* quote, a comment, a blank line, $?, cd with no argument and in the background.
SpecialLines == {<<"!", "1">>, <<"\"", "x">>, <<"#", "x">>, <<" ">>,
                 <<"x", " ", "$", "?">>, <<"c", "d">>, <<"c", "d", " ", "&">>}

Lines == pipelines(1) \cup pipelines(2) \cup ExecLines \cup SpecialLines

\* The lines a continuation read may deliver.
ContinuationLines == {<<"\"">>, <<"y">>}

\* What the line editor's history may hold for "!1": no such event, or a line.
HistoryChoices == {NULL, <<"x">>}

\* What the uninitialised name buffer of a "$" with no name after it may hold.
VarGarbage == {<<>>, <<"?">>, HOME}

\* The exit codes of the external program.
ExitCodes == {0, 3}

\* The listings of the PATH directory: with and without a program named cd.
PathListings == {<<<<"x">>>>, <<<<"x">>, <<"c", "d">>>>}

\* The entries of the current directory, in readdir's order.
DirEntries == <<<<"f">>, <<"y">>>>

\* The wait status of a child ended by signal sig; the status of a child that
\* exits is its exit code.
SignalStatus(sig) == 128 + sig

SIGINT == 2

SIGWINCH == 28

\* The wait status of a child that undefined behaviour ended (SIGSEGV).
CrashStatus == SignalStatus(11)

\* getpid() of the shell.
ShellPid == 1

(***************************************************************************)
(* Descriptors.  A descriptor table maps the open descriptor numbers of a  *)
(* process to what they refer to.                                          *)
(***************************************************************************)
TTY == [kind |-> "tty", pipe |-> 0, end |-> "", path |-> <<>>, mode |-> ""]

PipeEnd(id, e) == [kind |-> "pipe", pipe |-> id, end |-> e, path |-> <<>>, mode |-> ""]

FileObj(path, mode) == [kind |-> "file", pipe |-> 0, end |-> "", path |-> path, mode |-> mode]

StdFds == [fd \in 0..2 |-> TTY]

STDIN_FILENO == 0

STDOUT_FILENO == 1

\* The lowest descriptor number not open in tab.
lowest_fd(tab) == CHOOSE n \in 0..(Cardinality(DOMAIN tab)) :
                     /\ n \notin DOMAIN tab
                     /\ \A m \in 0..(n - 1) : m \in DOMAIN tab

\* open(path, mode): the table with the file at the lowest free number
fd_open(tab, obj) ==
    [fd \in DOMAIN tab \cup {lowest_fd(tab)} |-> IF fd \in DOMAIN tab THEN tab[fd] ELSE obj]

\* dup2(old, new); a bad old descriptor changes nothing
dup2(tab, old, new) ==
    IF old \in DOMAIN tab
    THEN [fd \in DOMAIN tab \cup {new} |-> IF fd = new THEN tab[old] ELSE tab[fd]]
    ELSE tab

\* close(fd)
fd_close(tab, fd) == [k \in DOMAIN tab \ {fd} |-> tab[k]]

\* The descriptor numbers of tab that refer to end e of pipe id.
(***************************************************************************)
(* The state.                                                              *)
(***************************************************************************)
VARIABLES
    shell_interactive,  \* 0: -c, 1: interactive, 2: script file (sh.c 59)
    shell_commands,     \* the command table after install, add_path and sort
    path_names,         \* the programs execvp finds
    pc,                 \* where the shell is in main and shell_exec
    last_ret,           \* sh.c 60
    child,              \* the tracked foreground child (sh.c 163)
    lex,                \* the lexer's locals, kept across a continuation read
    buffer,             \* the line buffer while a continuation is read (sh.c 453)
    continued,          \* continuation lines read for the current line
    plan,               \* the planner's result while it is in use
    nowait,             \* sh.c 805
    j,                  \* the stage the pipeline loop is at (sh.c 820)
    child_pid,          \* sh.c 803
    ret_code,           \* sh.c 864
    last_output,        \* sh.c 811: <<read descriptor, write descriptor>>
    tmp_out,            \* sh.c 821
    returned,           \* the value shell_exec returns, and by which path
    shell_fds,          \* the shell's descriptor table
    procs,              \* the shell's unreaped children, by pid
    tty_pgrp,           \* the terminal's foreground process group
    cwd,                \* the shell's working directory
    environ,            \* the shell's environment
    tokens,             \* history: the lexer's tokens of the current line (sh.c 684)
    stage_pids,         \* history: the pids forked for the current line, by stage
    reaped,             \* history: <<pid, status>> of each reap of the current wait loop
    parent_closes,      \* history: what the shell closed for the current line
    killed              \* the call kill(pid, sig) the latest step made: <<pid, sig>> or <<>>

vars == <<shell_interactive, shell_commands, path_names, pc, last_ret, child, lex, buffer,
          continued, plan, nowait, j, child_pid, ret_code, last_output, tmp_out,
          returned, shell_fds, procs, tty_pgrp, cwd, environ, tokens, stage_pids,
          reaped, parent_closes, killed>>

NoFds == <<0, 0>>

NoProcs == [p \in {} |-> 0]

NoReturn == [ret |-> 0, path |-> "none"]

Init ==
    /\ shell_interactive \in {0, 1, 2}
    /\ \E listing \in PathListings :
         /\ shell_interactive = 1 \/ listing = <<<<"x">>>>
         /\ path_names = {listing[k] : k \in 1..Len(listing)}
         /\ shell_commands \in sort_commands(add_path_contents(install_commands, listing))
    /\ pc = "read"
    /\ last_ret = 0
    /\ child = 0
    /\ lex = LexInit
    /\ buffer = <<>>
    /\ continued = 0
    /\ plan = EmptyPlan
    /\ nowait = FALSE
    /\ j = 0
    /\ child_pid = 0
    /\ ret_code = 0
    /\ last_output = NoFds
    /\ tmp_out = NoFds
    /\ returned = NoReturn
    /\ shell_fds = StdFds
    /\ procs = NoProcs
    /\ tty_pgrp = ShellPid
    /\ cwd = <<"/">>
    /\ environ = (HOME :> <<"t">>)
    /\ tokens = <<>>
    /\ stage_pids = <<>>
    /\ reaped = <<>>
    /\ parent_closes = <<>>
    /\ killed = <<>>

\* What the lexer reads of the interpreter: $?, the positional arguments of
\* script mode (the script's name) and the environment.
ShellContext(garbage) ==
    [last_ret |-> last_ret, environ |-> environ, var_garbage |-> garbage,
     shell_argv |-> IF shell_interactive = 2 THEN <<<<"s">>>> ELSE <<>>]

\* The variables main and the lexer never write after startup.
Startup == <<shell_interactive, shell_commands, path_names>>

\* The histories of the current line.
Histories == <<tokens, stage_pids, reaped, parent_closes>>

\* The locals of the executor.
ExecLocals == <<j, child_pid, ret_code, last_output, tmp_out>>

\* shell_exec acts on outcome o, reached with the lexer state st over the buffer
\* buf: it reads on,
\* returns, crashes, or goes to the builtin call or to the first fork.
Apply(o, st, buf) ==
    /\ killed' = <<>>
    /\ buffer' = IF o.kind = "continue" THEN buf ELSE <<>>
    /\ tokens' = IF o.kind \in {"builtin", "spawn", "crash"} THEN lex_finish(st) ELSE <<>>
    /\ UNCHANGED <<Startup, ExecLocals, last_ret, child, shell_fds, procs, tty_pgrp, cwd,
                   environ, stage_pids, reaped, parent_closes>>
    /\ CASE o.kind = "continue" ->
              /\ continued < MaxContinued
              /\ pc' = "continued"
              /\ lex' = st
              /\ continued' = continued + 1
              /\ UNCHANGED <<plan, nowait, returned>>
         [] o.kind = "return" ->
              /\ pc' = "returned"
              /\ returned' = [ret |-> o.ret, path |-> IF st.quoted # "" THEN "quote" ELSE "empty"]
              /\ lex' = LexInit
              /\ UNCHANGED <<plan, nowait, continued>>
         [] o.kind = "crash" ->
              /\ pc' = "crashed"
              /\ lex' = LexInit
              /\ UNCHANGED <<plan, nowait, continued, returned>>
         [] o.kind = "builtin" ->
              /\ pc' = "builtin"
              /\ plan' = o.plan
              /\ nowait' = o.nowait
              /\ lex' = LexInit
              /\ UNCHANGED <<continued, returned>>
         [] o.kind = "spawn" ->
              /\ Cardinality(DOMAIN procs) + o.plan.cmdi + 1 <= MaxProcs
              /\ pc' = IF o.plan.cmdi > 0 THEN "fork_first" ELSE "fork_single"
              /\ plan' = o.plan
              /\ nowait' = o.nowait
              /\ lex' = LexInit
              /\ UNCHANGED <<continued, returned>>

\* main reads a line and calls shell_exec, which runs up to its return, its
\* builtin call or its first fork (sh.c 1019-1025, 453-861).  A line that
\* starts with '!' is replaced by the history entry it names (sh.c 456-464).
ReadLine(line) ==
    /\ pc = "read"
    /\ \E hist \in (IF Len(line) > 0 /\ line[1] = "!" THEN HistoryChoices \ {NULL} ELSE {line}),
          garbage \in (IF strchr(line, "$") THEN VarGarbage ELSE {<<>>}) :
         LET st == lex_line(LexInit, hist, ShellContext(garbage))
         IN  \E o \in after_lex(shell_commands, st, shell_interactive, DirEntries) :
                Apply(o, st, hist)

\* The line names a history entry that does not exist: shell_exec returns 0
\* (sh.c 456-464).
EventNotFound(line) ==
    /\ killed' = <<>>
    /\ pc = "read"
    /\ Len(line) > 0 /\ line[1] = "!"
    /\ NULL \in HistoryChoices
    /\ pc' = "returned"
    /\ returned' = [ret |-> 0, path |-> "event"]
    /\ UNCHANGED <<Startup, ExecLocals, Histories, last_ret, child, lex, buffer, continued,
                   plan,
                   nowait, shell_fds, procs, tty_pgrp, cwd, environ>>

\* The continuation read of an unterminated quote (sh.c 661-670): lexing goes
\* on over the new buffer with the lexer's locals as they are.
ReadContinued(line) ==
    /\ pc = "continued"
    /\ LET st == lex_line(lex, line, ShellContext(<<>>))
       IN  \E o \in after_lex(shell_commands, st, shell_interactive, DirEntries) :
              Apply(o, st, line)

\* The continuation read of script mode at the end of the file (sh.c 667-669):
\* fgets stores nothing, its result is not looked at, and lexing goes on over
\* the buffer as it is.
ContinuedEof ==
    /\ pc = "continued"
    /\ shell_interactive = 2
    /\ LET st == lex_line(lex, buffer, ShellContext(<<>>))
       IN  \E o \in after_lex(shell_commands, st, shell_interactive, DirEntries) :
              Apply(o, st, buffer)

\* return func(argcs[0], arg_starts[0]) (sh.c 849-852): the handler runs in the
\* shell's process.
CallBuiltin ==
    /\ killed' = <<>>
    /\ pc = "builtin"
    /\ \E r \in call_builtin(shell_find(shell_commands, plan.argv[plan.arg_starts[1]]),
                             plan.argcs[1], stage_args(plan, 0), cwd, environ) :
         /\ cwd' = r.cwd
         /\ environ' = r.environ
         /\ pc' = CASE r.fate = "return" -> "returned"
                    [] r.fate = "exit" -> "exited"
                    [] OTHER -> "crashed"
         /\ returned' = IF r.fate = "return" THEN [ret |-> r.ret, path |-> "builtin"]
                        ELSE returned
    /\ UNCHANGED <<Startup, ExecLocals, Histories, last_ret, child, lex, buffer, continued,
                   plan,
                   nowait, shell_fds, procs, tty_pgrp>>

\* A main that never stores what shell_exec returned.
main_keeps_last_ret(ret) == last_ret

\* main after shell_exec returned ret (sh.c 984-985, 1011-1012, 1024-1025):
\* the value of last_ret.
main_last_ret(ret) ==
    IF shell_interactive = 0 THEN ret ELSE IF ret >= 0 THEN ret ELSE last_ret

\* main stores the value shell_exec returned; -c ends the shell, the loops read
\* again.  The locals of shell_exec are dead.
MainStore ==
    /\ killed' = <<>>
    /\ pc = "returned"
    /\ last_ret' = main_last_ret(returned.ret)
    /\ pc' = IF shell_interactive = 0 THEN "exited" ELSE "read"
    /\ returned' = NoReturn
    /\ lex' = LexInit
    /\ buffer' = <<>>
    /\ continued' = 0
    /\ plan' = EmptyPlan
    /\ nowait' = FALSE
    /\ j' = 0
    /\ child_pid' = 0
    /\ ret_code' = 0
    /\ last_output' = NoFds
    /\ tmp_out' = NoFds
    /\ tokens' = <<>>
    /\ stage_pids' = <<>>
    /\ reaped' = <<>>
    /\ parent_closes' = <<>>
    /\ UNCHANGED <<Startup, child, shell_fds, procs, tty_pgrp, cwd, environ>>

\* The script file is at its end (sh.c 1008).
ScriptEof ==
    /\ killed' = <<>>
    /\ pc = "read"
    /\ shell_interactive = 2
    /\ pc' = "exited"
    /\ UNCHANGED <<Startup, ExecLocals, Histories, last_ret, child, lex, buffer, continued,
                   plan,
                   nowait, returned, shell_fds, procs, tty_pgrp, cwd, environ>>

(***************************************************************************)
(* fork, pipe and the children's code between fork and exec.               *)
(***************************************************************************)
\* The pid fork returns: the lowest one no unreaped child of the shell has.
new_pid == CHOOSE n \in 2..(Cardinality(DOMAIN procs) + 2) :
              /\ n \notin DOMAIN procs
              /\ \A m \in 2..(n - 1) : m \in DOMAIN procs

used_pipes ==
    {shell_fds[fd].pipe : fd \in {k \in DOMAIN shell_fds : shell_fds[k].kind = "pipe"}}
    \cup UNION {{procs[p].fds[fd].pipe :
                    fd \in {k \in DOMAIN procs[p].fds : procs[p].fds[k].kind = "pipe"}} :
                p \in DOMAIN procs}

\* The identity of the pipe a pipe() call creates.
fresh_pipe == CHOOSE n \in 1..(Cardinality(used_pipes) + 1) :
                 /\ n \notin used_pipes
                 /\ \A m \in 1..(n - 1) : m \in used_pipes

\* pipe(fds) in the shell: the table after it and the two descriptors.
pipe_call(tab) ==
    LET t1 == fd_open(tab, PipeEnd(fresh_pipe, "r"))
        t2 == fd_open(t1, PipeEnd(fresh_pipe, "w"))
    IN  [tab |-> t2, fds |-> <<lowest_fd(tab), lowest_fd(t1)>>]

\* The child fork() leaves: a copy of the shell's descriptors and locals, at
\* the first statement of its branch.
Forked(role, stage, tab, lo, tmp) ==
    [st |-> "forked", role |-> role, stage |-> stage, args |-> stage_args(plan, stage),
     out_file |-> plan.output_files[plan.cmdi + 1], out_mode |-> plan.file_args[plan.cmdi + 1],
     lo |-> lo, tmp |-> tmp, fds |-> tab, status |-> 0]

with_child(pid, rec) ==
    [p \in DOMAIN procs \cup {pid} |-> IF p = pid THEN rec ELSE procs[p]]

without_child(pid) == [p \in DOMAIN procs \ {pid} |-> procs[p]]

\* dup2(open(output_files[cmdi], file_args[cmdi], 0666), STDOUT_FILENO) (sh.c 837-839, 855-857)
redirect(c, tab) ==
    IF c.out_file = NULL THEN tab
    ELSE dup2(fd_open(tab, FileObj(c.out_file, c.out_mode)), lowest_fd(tab), STDOUT_FILENO)

\* The first stage's child up to run_cmd (sh.c 815-816).
first_child_fds(c) == fd_close(dup2(c.fds, c.lo[2], STDOUT_FILENO), c.lo[1])

\* A middle stage's child up to run_cmd (sh.c 824-827).
middle_child_fds(c) ==
    fd_close(fd_close(dup2(dup2(c.fds, c.tmp[2], STDOUT_FILENO), c.lo[1], STDIN_FILENO),
                      c.tmp[1]), c.lo[2])

\* The last stage's child up to run_cmd (sh.c 837-841).
last_child_fds(c) == fd_close(dup2(redirect(c, c.fds), c.lo[1], STDIN_FILENO), c.lo[2])

\* The descriptors a forked child has when it calls run_cmd.
child_fds(c) ==
    CASE c.role = "first" -> first_child_fds(c)
      [] c.role = "middle" -> middle_child_fds(c)
      [] c.role = "last" -> last_child_fds(c)
      [] OTHER -> redirect(c, c.fds)

\* The child's locals are dead once it has exec'ed or exited.
Settled(c) == [c EXCEPT !.args = <<>>, !.out_file = NULL, !.out_mode = 0,
                        !.lo = NoFds, !.tmp = NoFds, !.role = "", !.stage = 0]

Running(c, tab) == [Settled(c) EXCEPT !.st = "running", !.fds = tab]

\* A child that ended with wait status s: exit closes its descriptors.
Zombie(c, s) == [Settled(c) EXCEPT !.st = "zombie", !.fds = [fd \in {} |-> TTY],
                                   !.status = s]

\* run_cmd (sh.c 427-443).  With args[0] NULL, execvp and strcmp are handed
\* NULL: the child crashes, or goes on to "Command not found".
run_cmd(c, tab) ==
    IF c.args = <<>> THEN {Zombie(c, CrashStatus), Zombie(c, 127)}
    ELSE IF c.args[1] \in path_names THEN {Running(c, tab)}
    ELSE IF shell_find(shell_commands, c.args[1]) # "NULL"
    THEN {Zombie(c, IF r.fate = "crash" THEN CrashStatus ELSE r.ret) :
             r \in call_builtin(shell_find(shell_commands, c.args[1]), Len(c.args),
                                c.args, cwd, environ)}
    ELSE {Zombie(c, 127)}

ShellState == <<Startup, ExecLocals, Histories, pc, last_ret, child, lex, buffer, continued,
                   plan,
                nowait, returned, shell_fds, tty_pgrp, cwd, environ>>

ShellLives == pc \notin {"exited", "crashed"}

\* A forked child runs its branch up to and through run_cmd.
ChildRun(p) ==
    /\ killed' = <<>>
    /\ ShellLives
    /\ p \in DOMAIN procs
    /\ procs[p].st = "forked"
    /\ \E c \in run_cmd(procs[p], child_fds(procs[p])) : procs' = with_child(p, c)
    /\ UNCHANGED ShellState

\* The external program closes its standard output, a pipe.
ChildCloseOutput(p) ==
    /\ killed' = <<>>
    /\ ShellLives
    /\ p \in DOMAIN procs
    /\ procs[p].st = "running"
    /\ STDOUT_FILENO \in DOMAIN procs[p].fds
    /\ procs[p].fds[STDOUT_FILENO].kind = "pipe"
    /\ procs' = with_child(p, [procs[p] EXCEPT !.fds = fd_close(@, STDOUT_FILENO)])
    /\ UNCHANGED ShellState

\* The external program exits with code c.
ChildExit(p, c) ==
    /\ killed' = <<>>
    /\ ShellLives
    /\ p \in DOMAIN procs
    /\ procs[p].st = "running"
    /\ procs' = with_child(p, Zombie(procs[p], c))
    /\ UNCHANGED ShellState

(***************************************************************************)
(* The executor of shell_exec (sh.c 810-876).                              *)
(***************************************************************************)
Unchanged_main == UNCHANGED <<Startup, last_ret, lex, buffer, continued, returned, cwd, environ,
                              tokens>>

\* close(fd) in the shell, with the record of what was closed.
shell_close(tab, fd) == fd_close(tab, fd)

closed_log(log, tab, fd) == IF fd \in DOMAIN tab THEN Append(log, tab[fd]) ELSE log

\* pipe(last_output); child_pid = fork() (sh.c 811-818).
ForkFirst ==
    /\ killed' = <<>>
    /\ pc = "fork_first"
    /\ LET pp == pipe_call(shell_fds)
       IN  /\ shell_fds' = pp.tab
           /\ last_output' = pp.fds
           /\ child_pid' = new_pid
           /\ procs' = with_child(new_pid, Forked("first", 0, pp.tab, pp.fds, NoFds))
           /\ stage_pids' = Append(stage_pids, new_pid)
    /\ j' = 1
    /\ pc' = "loop"
    /\ Unchanged_main
    /\ UNCHANGED <<child, plan, nowait, ret_code, tmp_out, tty_pgrp, reaped,
                   parent_closes>>

\* pipe(tmp_out); fork() for a middle stage (sh.c 820-829).
ForkMiddle ==
    /\ killed' = <<>>
    /\ pc = "loop"
    /\ j < plan.cmdi
    /\ LET pp == pipe_call(shell_fds)
       IN  /\ shell_fds' = pp.tab
           /\ tmp_out' = pp.fds
           /\ procs' = with_child(new_pid, Forked("middle", j, pp.tab, last_output, pp.fds))
           /\ stage_pids' = Append(stage_pids, new_pid)
    /\ pc' = "close_middle"
    /\ Unchanged_main
    /\ UNCHANGED <<child, plan, nowait, j, child_pid, ret_code, last_output, tty_pgrp,
                   reaped, parent_closes>>

\* The shell closes the previous pipe and moves on (sh.c 830-833).
CloseMiddle ==
    /\ killed' = <<>>
    /\ pc = "close_middle"
    /\ shell_fds' = shell_close(shell_close(shell_fds, last_output[1]), last_output[2])
    /\ parent_closes' = closed_log(closed_log(parent_closes, shell_fds, last_output[1]),
                                   shell_close(shell_fds, last_output[1]), last_output[2])
    /\ last_output' = tmp_out
    /\ j' = j + 1
    /\ pc' = "loop"
    /\ Unchanged_main
    /\ UNCHANGED <<child, plan, nowait, child_pid, ret_code, tmp_out, procs, tty_pgrp,
                   reaped, stage_pids>>

\* fork() for the last stage (sh.c 836-843).
ForkLast ==
    /\ killed' = <<>>
    /\ pc = "loop"
    /\ j >= plan.cmdi
    /\ procs' = with_child(new_pid, Forked("last", plan.cmdi, shell_fds, last_output, NoFds))
    /\ stage_pids' = Append(stage_pids, new_pid)
    /\ pc' = "close_last"
    /\ Unchanged_main
    /\ UNCHANGED <<child, plan, nowait, j, child_pid, ret_code, last_output, tmp_out,
                   shell_fds, tty_pgrp, reaped, parent_closes>>

\* The shell closes the last pipe (sh.c 844-845).
CloseLast ==
    /\ killed' = <<>>
    /\ pc = "close_last"
    /\ shell_fds' = shell_close(shell_close(shell_fds, last_output[1]), last_output[2])
    /\ parent_closes' = closed_log(closed_log(parent_closes, shell_fds, last_output[1]),
                                   shell_close(shell_fds, last_output[1]), last_output[2])
    /\ pc' = "tcset"
    /\ Unchanged_main
    /\ UNCHANGED <<child, plan, nowait, j, child_pid, ret_code, last_output, tmp_out,
                   procs, tty_pgrp, reaped, stage_pids>>

\* child_pid = fork() for a single stage that is no builtin (sh.c 853-859).
ForkSingle ==
    /\ killed' = <<>>
    /\ pc = "fork_single"
    /\ child_pid' = new_pid
    /\ procs' = with_child(new_pid, Forked("single", 0, shell_fds, NoFds, NoFds))
    /\ stage_pids' = Append(stage_pids, new_pid)
    /\ pc' = "tcset"
    /\ Unchanged_main
    /\ UNCHANGED <<child, plan, nowait, j, ret_code, last_output, tmp_out, shell_fds,
                   tty_pgrp, reaped, parent_closes>>

\* The pid of the child forked last for the current line.
last_spawned == stage_pids[Len(stage_pids)]

\* The pid tcsetpgrp hands the terminal to after the forks (sh.c 863).
foreground_pid == child_pid

\* tcsetpgrp(STDIN_FILENO, child_pid); int ret_code = 0; if (!nowait) (sh.c 863-865)
TcsetChild ==
    /\ killed' = <<>>
    /\ pc = "tcset"
    /\ tty_pgrp' = foreground_pid
    /\ ret_code' = 0
    /\ pc' = IF nowait THEN "reclaim" ELSE "track"
    /\ plan' = EmptyPlan
    /\ tokens' = <<>>
    /\ UNCHANGED <<Startup, last_ret, lex, buffer, continued, returned, cwd, environ>>
    /\ UNCHANGED <<child, nowait, j, child_pid, last_output, tmp_out, shell_fds, procs,
                   reaped, stage_pids, parent_closes>>

\* child = child_pid (sh.c 866)
Track ==
    /\ killed' = <<>>
    /\ pc = "track"
    /\ child' = child_pid
    /\ pc' = "wait"
    /\ Unchanged_main
    /\ UNCHANGED <<plan, nowait, j, child_pid, ret_code, last_output, tmp_out, shell_fds,
                   procs, tty_pgrp, reaped, stage_pids, parent_closes>>

\* A wait loop that ends at the first failed wait, whatever errno says.
wait_while_reaping(pid, err) == pid # 0 - 1

\* A waitpid that leaves ret_code as it was.
keep_status(old, s) == old

\* The condition of the do-while around waitpid (sh.c 870): pid is what
\* waitpid returned, err is errno.
wait_again(pid, err) == pid # 0 - 1 \/ (pid = 0 - 1 /\ err # "ECHILD")

\* What waitpid stores in ret_code when it reaps a child with wait status s.
wait_status(old, s) == s

\* waitpid(-1, &ret_code, 0) reaps the zombie p (sh.c 869).
WaitReap(p) ==
    /\ killed' = <<>>
    /\ pc = "wait"
    /\ p \in DOMAIN procs
    /\ procs[p].st = "zombie"
    /\ ret_code' = wait_status(ret_code, procs[p].status)
    /\ reaped' = Append(reaped, <<p, procs[p].status>>)
    /\ procs' = without_child(p)
    /\ pc' = IF wait_again(p, "") THEN "wait" ELSE "untrack"
    /\ Unchanged_main
    /\ UNCHANGED <<child, plan, nowait, j, child_pid, last_output, tmp_out, shell_fds,
                   tty_pgrp, stage_pids, parent_closes>>

\* waitpid finds no child: -1 with ECHILD (sh.c 869-870).
WaitNoChild ==
    /\ killed' = <<>>
    /\ pc = "wait"
    /\ DOMAIN procs = {}
    /\ pc' = IF wait_again(0 - 1, "ECHILD") THEN "wait" ELSE "untrack"
    /\ Unchanged_main
    /\ UNCHANGED <<child, plan, nowait, j, child_pid, ret_code, last_output, tmp_out,
                   shell_fds, procs, tty_pgrp, reaped, stage_pids, parent_closes>>

\* child = 0 (sh.c 871)
Untrack ==
    /\ killed' = <<>>
    /\ pc = "untrack"
    /\ child' = 0
    /\ pc' = "reclaim"
    /\ Unchanged_main
    /\ UNCHANGED <<plan, nowait, j, child_pid, ret_code, last_output, tmp_out, shell_fds,
                   procs, tty_pgrp, reaped, stage_pids, parent_closes>>

\* A return that leaves the terminal with whoever has it.
kept_pgrp == tty_pgrp

\* The pid the terminal is handed to before shell_exec returns (sh.c 873).
reclaim_pid == ShellPid

\* tcsetpgrp(STDIN_FILENO, getpid()); return ret_code (sh.c 873-875)
Reclaim ==
    /\ killed' = <<>>
    /\ pc = "reclaim"
    /\ tty_pgrp' = reclaim_pid
    /\ returned' = [ret |-> ret_code, path |-> IF nowait THEN "background" ELSE "foreground"]
    /\ pc' = "returned"
    /\ UNCHANGED <<Startup, ExecLocals, Histories, last_ret, child, lex, buffer, continued,
                   plan,
                   nowait, shell_fds, procs, cwd, environ>>

\* kill(pid, sig): SIGINT ends a process that has not ended; SIGWINCH is
\* ignored by default.
kill(pid, sig) ==
    IF pid \in DOMAIN procs /\ procs[pid].st # "zombie" /\ sig = SIGINT
    THEN with_child(pid, Zombie(procs[pid], SignalStatus(sig)))
    ELSE procs

\* A handler that signals the child forked first whether it is tracked or not.
sig_pass_untracked(sig) == [killed |-> <<child_pid, sig>>, procs |-> kill(child_pid, sig)]

\* sig_pass (sh.c 165-170): the call kill(child, sig) the handler makes, if it
\* makes one, and the table of processes after it.
sig_pass(sig) ==
    IF child # 0 THEN [killed |-> <<child, sig>>, procs |-> kill(child, sig)]
    ELSE [killed |-> <<>>, procs |-> procs]

\* The shell receives SIGINT or SIGWINCH; a waitpid in progress returns -1
\* with EINTR (sh.c 869-870, 967-968).
Signal(sig) ==
    /\ ShellLives
    /\ procs' = sig_pass(sig).procs
    /\ killed' = sig_pass(sig).killed
    /\ pc' = IF pc = "wait" /\ ~wait_again(0 - 1, "EINTR") THEN "untrack" ELSE pc
    /\ Unchanged_main
    /\ UNCHANGED <<child, plan, nowait, j, child_pid, ret_code, last_output, tmp_out,
                   shell_fds, tty_pgrp, reaped, stage_pids, parent_closes>>

Next ==
    \/ \E line \in Lines : ReadLine(line)
    \/ \E line \in Lines : EventNotFound(line)
    \/ \E line \in ContinuationLines : ReadContinued(line)
    \/ ContinuedEof
    \/ CallBuiltin
    \/ MainStore
    \/ ScriptEof
    \/ ForkFirst
    \/ ForkMiddle
    \/ CloseMiddle
    \/ ForkLast
    \/ CloseLast
    \/ ForkSingle
    \/ TcsetChild
    \/ Track
    \/ \E p \in DOMAIN procs : WaitReap(p)
    \/ WaitNoChild
    \/ Untrack
    \/ Reclaim
    \/ \E p \in DOMAIN procs : ChildRun(p)
    \/ \E p \in DOMAIN procs : ChildCloseOutput(p)
    \/ \E p \in DOMAIN procs, c \in ExitCodes : ChildExit(p, c)
    \/ \E sig \in {SIGINT, SIGWINCH} : Signal(sig)

Spec == Init /\ [][Next]_vars

(***************************************************************************)
(* The lexer and the planner alone: one line is lexed and planned, for     *)
(* every line of LexTexts, exit status, environment and mode.              *)
(***************************************************************************)
\* The most characters of the lines made of every character of LexChars.
MaxLen == 2

\* The characters the lexer treats specially, and a letter.
LexChars == {"\\", "'", "\"", " ", "|", ">", "*", "#", "$", "a"}

RECURSIVE texts_upto(_)
\* The character sequences over LexChars of at most n characters.
texts_upto(n) ==
    IF n = 0 THEN {<<>>}
    ELSE texts_upto(n - 1) \cup
         {Append(t, c) : t \in {u \in texts_upto(n - 1) : Len(u) = n - 1}, c \in LexChars}

\* Lines of several stages and with redirections.
StageLines == {<<"a", "|", "b", " ", "c">>, <<"a", " ", "b", "|", "c", "|", "d">>,
               <<"a", ">", "f", "|", "b">>, <<"a", "|", "b", ">", "f">>,
               <<"a", ">", "f">>, <<"a", ">", ">", "f">>, <<"a", ">", " ", ">", "f">>,
               <<"a", ">", "f", ">", "g">>, <<"a", " ", "b", ">", "f">>}

\* Lines with a wildcard.
GlobLines == {<<"x", " ", "d", "/", "*", "c">>, <<"x", " ", "d", "/", "*">>,
              <<"x", " ", "a", "*">>, <<"x", " ", "*", "a">>, <<"x", " ", "a", "*", "a">>,
              <<"x", " ", "a", "b", "*", "b", "a">>, <<"x", " ", "*">>,
              <<"x", " ", "q", "*">>}

\* The characters an escape is tried on.
Escaped == {" ", "|", ">", "*", "#", "$", "'", "\"", "\\"}

\* A backslash before each of them, outside quotes and inside double quotes.
EscapeLines == {<<"a", "\\", c, "b">> : c \in Escaped} \cup
               {<<"\"", "a", "\\", c, "b", "\"">> : c \in Escaped}

\* Lines with variable references.
VarLines == {<<"x", " ", "$", "V">>, <<"a", "$", "V", " ", "b">>,
             <<"x", " ", "\"", "$", "V", "\"">>, <<"x", " ", "\"", "$", "?", "\"">>,
             <<"x", " ", "$", "?", "a", "b">>, <<"x", " ", "$", "V", "?">>,
             <<"x", " ", "$", "{", "V", "}", "b">>, <<"x", " ", "$", "?">>,
             <<"x", " ", "$", "V", "_", "1", " ", "b">>}

LexTexts == texts_upto(MaxLen) \cup StageLines \cup GlobLines \cup EscapeLines \cup VarLines

\* The values the variable V may have.
VarValues == {<<"v">>, <<"a", " ", "b">>, <<"$", "V">>, <<"*">>, <<"a", "|", "b">>,
              <<">", "f">>, <<"#", "c">>, <<"\"">>, <<"'">>, <<"\\">>}

\* The entries of the current directory the wildcard lines are planned with.
GlobEntries == <<<<".", "a">>, <<"a">>, <<"a", "b">>, <<"a", "b", "a">>,
                <<"a", "b", "b", "a">>, <<"b">>, <<"b", "a">>>>

LexStart ==
    /\ buffer \in LexTexts
    /\ last_ret \in ExitCodes
    /\ \E v \in VarValues : environ = (HOME :> <<"t">>) @@ (<<"V">> :> v)
    /\ shell_interactive \in {0, 1, 2}
    /\ shell_commands \in sort_commands(install_commands)
    /\ path_names = {}
    /\ pc = "lex"
    /\ child = 0
    /\ lex = LexInit
    /\ continued = 0
    /\ plan = EmptyPlan
    /\ nowait = FALSE
    /\ j = 0
    /\ child_pid = 0
    /\ ret_code = 0
    /\ last_output = NoFds
    /\ tmp_out = NoFds
    /\ returned = NoReturn
    /\ shell_fds = StdFds
    /\ procs = NoProcs
    /\ tty_pgrp = ShellPid
    /\ cwd = <<"/">>
    /\ tokens = <<>>
    /\ stage_pids = <<>>
    /\ reaped = <<>>
    /\ parent_closes = <<>>
    /\ killed = <<>>

\* What lexing and planning leave alone.
LexUnchanged ==
    UNCHANGED <<Startup, ExecLocals, buffer, last_ret, child, continued, nowait, returned,
                shell_fds, procs, tty_pgrp, cwd, environ, stage_pids, reaped, parent_closes,
                killed>>

\* The lexer's loop over the buffer, up to the label _done and the last
\* add_argument (sh.c 486-682).
LexLine ==
    /\ pc = "lex"
    /\ \E garbage \in (IF strchr(buffer, "$") THEN VarGarbage ELSE {<<>>}) :
         lex' = lex_line(LexInit, buffer, ShellContext(garbage))
    /\ tokens' = IF lex'.quoted = "" THEN lex_finish(lex') ELSE <<>>
    /\ pc' = IF lex'.quoted = "" THEN "lexed" ELSE "open"
    /\ plan' = plan
    /\ LexUnchanged

\* The planner's loop over the tokens (sh.c 684-792).
PlanLine ==
    /\ pc = "lexed"
    /\ plan' = shell_plan(tokens, GlobEntries)
    /\ pc' = "planned"
    /\ UNCHANGED <<lex, tokens>>
    /\ LexUnchanged

LexNext == LexLine \/ PlanLine

LexSpec == LexStart /\ [][LexNext]_vars

(***************************************************************************)
(* Properties.                                                             *)
(***************************************************************************)
\* shell_exec has returned to main, by the given path.
Returned(path) == pc = "returned" /\ returned.path = path

\* The stages of the line the tokens spell: one more than its pipe markers.
line_stages == count_token(tokens, PIPE_TOKEN) + 1

\* The wait status the current wait loop reaped for pid.
status_of(pid) == (CHOOSE r \in {reaped[k] : k \in 1..Len(reaped)} : r[1] = pid)[2]

latest_reap == reaped[Len(reaped)]

\* C1 (as stated): a builtin handler is called in the shell's own process only
\* for a line of a single stage; a line with a pipe marker never gets there.
C1_BuiltinOnlySingleStage == pc = "builtin" => line_stages = 1

\* The builtin cd is about to be called in the shell for the line cd t>f|x.
C1_BuiltinCalledForPipeline ==
    /\ pc = "builtin"
    /\ line_stages = 2
    /\ stage_args(plan, 0) = <<<<"c", "d">>, <<"t">>>>

\* A single-stage foreground line has returned and main is about to store.
SingleForeground == Returned("foreground") /\ Len(stage_pids) = 1

\* What "$?" in the line x $? lexes to.
DollarQuestion ==
    lex_finish(lex_line(LexInit, <<"x", " ", "$", "?">>, ShellContext(<<>>)))[2]

\* C2 (amended): when the child of a single-stage foreground line is the last
\* child the wait loop reaps, main stores its wait status as last_ret and "$?"
\* on the next line lexes to the decimal text of that status.
C2_StatusWhenReapedLast ==
    [][SingleForeground /\ pc' # "returned" /\ latest_reap[1] = stage_pids[1]
         => /\ last_ret' = latest_reap[2]
            /\ DollarQuestion' = Decimal(latest_reap[2])]_vars

\* C2 (as stated): after a single-stage foreground line whose external command
\* exits with code c, last_ret is c and "$?" lexes to the decimal text of c.
C2_StatusOfCommand ==
    [][SingleForeground /\ pc' # "returned" /\ status_of(stage_pids[1]) \in ExitCodes
         => /\ last_ret' = status_of(stage_pids[1])
            /\ DollarQuestion' = Decimal(status_of(stage_pids[1]))]_vars

\* The command's child exited with 3, was reaped last, and 3 was returned.
C2_Witness ==
    /\ SingleForeground
    /\ latest_reap = <<stage_pids[1], 3>>
    /\ returned.ret = 3

\* C3: the value a foreground shell_exec returns is the wait status of the
\* child the wait loop reaped last, whichever child that is.
C3_ReturnsLatestReap ==
    Returned("foreground") => reaped # <<>> /\ returned.ret = latest_reap[2]

\* A foreground line returned the status of a stray child of an earlier
\* background line, which differs from the status of its own last stage.
C3_Witness ==
    /\ Returned("foreground")
    /\ Len(reaped) >= 2
    /\ latest_reap[1] \notin {stage_pids[k] : k \in 1..Len(stage_pids)}
    /\ latest_reap[2] # status_of(last_spawned)
    /\ returned.ret = latest_reap[2]

\* The shell has just handed the terminal to a child.
HandedOff == pc = "track" \/ (pc = "reclaim" /\ nowait)

\* C4 (amended): right after the children of a line are spawned, the terminal's
\* foreground process group is the pid of the first child forked (stage 0).
C4_HandOffToFirstChild == HandedOff => tty_pgrp = stage_pids[1]

\* C4 (as stated): right after the children of a line are spawned, the terminal's
\* foreground process group is the pid of the last child forked.
C4_HandOffToLastChild == HandedOff => tty_pgrp = last_spawned

\* The terminal was handed to the first of three children.
C4_Witness ==
    /\ HandedOff
    /\ Len(stage_pids) = 3
    /\ tty_pgrp = stage_pids[1]
    /\ stage_pids[1] # last_spawned

\* C5: the terminal belongs to the shell wherever shell_exec is entered or has
\* returned; a child has it only from the hand-off to the reclaim after the
\* wait loop.
C5_TerminalReclaimed ==
    tty_pgrp # ShellPid => pc \in {"track", "wait", "untrack", "reclaim"}

\* A foreground line had the terminal handed to its child, the child was
\* reaped, and the shell has the terminal again on return.
C5_Witness ==
    /\ Returned("foreground")
    /\ reaped # <<>>
    /\ tty_pgrp = ShellPid
    /\ child_pid # ShellPid

\* C6: the wait loop of a foreground line ends, and shell_exec returns, only
\* when the shell has no child left, children of earlier background lines
\* included.
C6_NoChildLeft ==
    (pc = "untrack" \/ (pc = "reclaim" /\ ~nowait) \/ Returned("foreground"))
        => DOMAIN procs = {}

\* A foreground line returned after its wait loop also reaped two children it
\* had not forked.
C6_Witness ==
    /\ Returned("foreground")
    /\ DOMAIN procs = {}
    /\ Len(reaped) = Len(stage_pids) + 2

\* C7 (as stated): a line whose last token is "&" has its children spawned and
\* shell_exec returns; the shell does not end on it.
C7_BackgroundLineRuns ==
    pc = "crashed" => ~(tokens # <<>> /\ tokens[Len(tokens)] = AMP)

\* The line "&" ended the shell.
C7_BackgroundLineCrashed == pc = "crashed" /\ tokens = <<AMP>>

\* The pipe write ends among the descriptors of table tab, except descriptor fd.
write_ends_besides(tab, fd) ==
    {k \in DOMAIN tab \ {fd} : tab[k].kind = "pipe" /\ tab[k].end = "w"}

\* C8 (as stated): once a running stage has closed its standard output, it
\* holds no write end of a pipe, so the next stage reads end-of-stream.
C8_CloseOutputGivesEof ==
    \A p \in DOMAIN procs :
        procs[p].st = "running" /\ STDOUT_FILENO \notin DOMAIN procs[p].fds
            => write_ends_besides(procs[p].fds, STDOUT_FILENO) = {}

\* A running stage closed its standard output and still holds the pipe's
\* write end through the descriptor pipe() returned.
C8_WriteEndLeft ==
    \E p \in DOMAIN procs :
        /\ procs[p].st = "running"
        /\ STDOUT_FILENO \notin DOMAIN procs[p].fds
        /\ write_ends_besides(procs[p].fds, STDOUT_FILENO) # {}

\* C9 (as stated): every child the executor forks has a non-empty argv.
C9_StagesNonEmpty ==
    \A p \in DOMAIN procs : procs[p].st = "forked" => procs[p].args # <<>>

\* A child was forked for the empty first stage of a line.
C9_EmptyStageForked ==
    \E p \in DOMAIN procs :
        procs[p].st = "forked" /\ procs[p].args = <<>> /\ procs[p].role = "first"

RECURSIVE word_after_marker(_)
\* The first word that follows the first redirect marker of a token list, an
\* immediately repeated marker skipped; NULL when there is none.
word_after_marker(args) ==
    IF args = <<>> THEN NULL
    ELSE IF Head(args) # WRITE_TOKEN THEN word_after_marker(Tail(args))
    ELSE IF Len(args) >= 2 /\ args[2] # WRITE_TOKEN THEN args[2]
    ELSE IF Len(args) >= 3 THEN args[3]
    ELSE NULL

\* The words of a token list outside its redirections.
other_words(args) ==
    SelectSeq([k \in 1..Len(args) |->
                  IF \/ args[k] \in {WRITE_TOKEN, PIPE_TOKEN}
                     \/ (k > 1 /\ args[k - 1] = WRITE_TOKEN)
                     \/ (k > 2 /\ args[k - 1] = WRITE_TOKEN /\ args[k - 2] = WRITE_TOKEN)
                  THEN NULL ELSE args[k]],
              LAMBDA w : w # NULL)

\* The plan of the current line is in use.
Planned == pc \in {"builtin", "fork_first", "fork_single"}

\* C10 (as stated): the output path of a line with a redirect marker is the one
\* word after the marker, and every other word of the line is in argv.
C10_OneWordAfterMarker ==
    Planned /\ count_token(tokens, WRITE_TOKEN) > 0 /\ ~nowait
        => /\ plan.output_files[plan.cmdi + 1] = word_after_marker(tokens)
           /\ SelectSeq(plan.argv, LAMBDA w : w # NULL) = other_words(tokens)

\* The line x > f y is planned with output path y and argv [x].
C10_LaterWordTaken ==
    /\ Planned
    /\ tokens = <<<<"x">>, WRITE_TOKEN, <<"f">>, <<"y">>>>
    /\ plan.output_files[plan.cmdi + 1] = <<"y">>
    /\ stage_args(plan, 0) = <<<<"x">>>>

RECURSIVE segment(_, _)
\* The tokens between the j-th and the (j+1)-th pipe marker of a token list.
segment(args, k) ==
    IF args = <<>> THEN <<>>
    ELSE IF Head(args) = PIPE_TOKEN
    THEN IF k = 0 THEN <<>> ELSE segment(Tail(args), k - 1)
    ELSE IF k = 0 THEN <<Head(args)>> \o segment(Tail(args), k) ELSE segment(Tail(args), k)

\* The line has been lexed and planned, and has no wildcard.
PlannedPlain ==
    pc = "planned" /\ \A k \in 1..Len(tokens) : strstr(tokens[k], STAR_TOKEN) = 0

\* C11 (as stated): a token list with k pipe markers is planned as k + 1 stages,
\* and the argv of stage j is the words between the j-th and the (j+1)-th
\* marker, redirection paths left out, in their order.
C11_StagesSplitAtPipes ==
    PlannedPlain =>
        /\ plan.cmdi = count_token(tokens, PIPE_TOKEN)
        /\ \A k \in 0..plan.cmdi : stage_args(plan, k) = other_words(segment(tokens, k))

\* The line a>f|b is planned as the one stage [a] with output path b.
C11_PipeAfterRedirectionLost ==
    /\ pc = "planned"
    /\ buffer = <<"a", ">", "f", "|", "b">>
    /\ plan.cmdi = 0
    /\ stage_args(plan, 0) = <<<<"a">>>>
    /\ plan.output_files[1] = <<"b">>

\* The index of the first redirect marker of a token list, 0 when it has none.
first_marker(args) == strstr(args, <<WRITE_TOKEN>>)

\* A second redirect marker comes right after the first one.
marker_repeated(args) ==
    first_marker(args) < Len(args) /\ args[first_marker(args) + 1] = WRITE_TOKEN

\* C12 (as stated): the output of a line with a redirect marker is opened for
\* appending exactly when a second marker comes right after the first one, and
\* for truncating otherwise.
C12_AppendIffMarkerRepeated ==
    PlannedPlain /\ first_marker(tokens) > 0 =>
        plan.file_args[plan.cmdi + 1] =
            IF marker_repeated(tokens) THEN O_APPEND_MODE ELSE O_TRUNC_MODE

\* The line a>f>g is planned with output path g opened for appending.
C12_AppendAfterFilename ==
    /\ pc = "planned"
    /\ buffer = <<"a", ">", "f", ">", "g">>
    /\ plan.output_files[1] = <<"g">>
    /\ plan.file_args[1] = O_APPEND_MODE

\* The text of a wildcard-marked word before and after its marker.
glob_prefix(w) == SubSeq(w, 1, strstr(w, STAR_TOKEN) - 1)

glob_suffix(w) == SubSeq(w, strstr(w, STAR_TOKEN) + Len(STAR_TOKEN), Len(w))

\* A line of the word x and one wildcard-marked word has been planned.
PlannedGlob ==
    /\ pc = "planned"
    /\ Len(tokens) = 2
    /\ strstr(tokens[1], STAR_TOKEN) = 0
    /\ tokens[1] \notin {PIPE_TOKEN, WRITE_TOKEN}
    /\ strstr(tokens[2], STAR_TOKEN) > 0

\* C13 (as stated): a wildcard-marked word whose prefix holds a '/' becomes the
\* one argument prefix, '*', suffix.
C13_DirectoryGlobUnchanged ==
    PlannedGlob /\ strchr(glob_prefix(tokens[2]), "/") =>
        stage_args(plan, 0) =
            <<tokens[1], glob_prefix(tokens[2]) \o <<"*">> \o glob_suffix(tokens[2])>>

\* The line x d/*c is planned with the argument d/*: the suffix is gone.
C13_SuffixLost ==
    /\ PlannedGlob
    /\ buffer = <<"x", " ", "d", "/", "*", "c">>
    /\ stage_args(plan, 0) = <<<<"x">>, <<"d", "/", "*">>>>

starts_with(s, t) == Len(s) >= Len(t) /\ SubSeq(s, 1, Len(t)) = t

ends_with(s, t) == Len(s) >= Len(t) /\ SubSeq(s, Len(s) - Len(t) + 1, Len(s)) = t

\* The entries that do not start with '.', start with the prefix of w and end
\* with its suffix.
entries_stated(w) ==
    SelectSeq(GlobEntries,
              LAMBDA n : /\ n[1] # "."
                         /\ starts_with(n, glob_prefix(w))
                         /\ ends_with(n, glob_suffix(w)))

\* Those of them that are at least as long as the prefix and the suffix together.
entries_amended(w) ==
    SelectSeq(entries_stated(w), LAMBDA n : Len(n) >= Len(glob_prefix(w)) + Len(glob_suffix(w)))

\* C14 (amended): a wildcard-marked word with no '/' in its prefix becomes, when
\* some entry qualifies, one argument per entry that does not start with '.',
\* starts with the prefix and ends with the suffix after the prefix (the name is
\* at least as long as the two together), in enumeration order.
C14_MatchesAfterPrefix ==
    PlannedGlob /\ ~strchr(glob_prefix(tokens[2]), "/") /\ entries_amended(tokens[2]) # <<>>
        => stage_args(plan, 0) = <<tokens[1]>> \o entries_amended(tokens[2])

\* C14 (as stated): a wildcard-marked word with no '/' in its prefix becomes, when
\* some entry qualifies, one argument per entry that does not start with '.',
\* starts with the prefix and ends with the suffix, names shorter than the two
\* together included.
C14_MatchesPrefixAndSuffix ==
    PlannedGlob /\ ~strchr(glob_prefix(tokens[2]), "/") /\ entries_stated(tokens[2]) # <<>>
        => stage_args(plan, 0) = <<tokens[1]>> \o entries_stated(tokens[2])

\* The line x a*a is planned with the arguments aba and abba; the entry a,
\* which starts and ends with a, is not among them.
C14_Witness ==
    /\ PlannedGlob
    /\ buffer = <<"x", " ", "a", "*", "a">>
    /\ stage_args(plan, 0) = <<<<"x">>, <<"a", "b", "a">>, <<"a", "b", "b", "a">>>>

\* The character after the first backslash of a line.
escaped_char(buf) == buf[strstr(buf, <<"\\">>) + 1]

Lexed == pc \in {"lexed", "open"}

\* C15: on a line a\cb, bare or inside double quotes, with c one of space, |, >,
\* *, #, $, ', " and \, the only token is acb, no quote is left open by the
\* escaped character and the escape flag is clear at the end of the line.
C15_EscapedCharIsLiteral ==
    Lexed /\ buffer \in EscapeLines
        => /\ lex.quoted = ""
           /\ ~lex.backtick
           /\ lex_finish(lex) = <<<<"a", escaped_char(buffer), "b">>>>

\* The bare line a\"b ends with a double quote open and the text a\b collected.
C15_EscapedQuoteOpens ==
    /\ pc = "open"
    /\ buffer = <<"a", "\\", "\"", "b">>
    /\ lex.quoted = "\""
    /\ lex.buffer_ = <<"a", "\\", "b">>

\* A step that ends a line with a quote open in interactive or script mode.
QuoteLeftOpen == pc' = "continued" /\ (pc = "read" \/ lex' # lex)

\* A step that resumes lexing after a line ended with a quote open.
QuoteResumed == pc = "continued" /\ (pc' # "continued" \/ lex' # lex)

\* C16: a line that ends with a quote open plans and runs nothing; in interactive
\* and script mode lexing then goes on over another line that was read, from the
\* quote state, collected text and tokens kept, and in -c mode the invocation
\* returns 127 with no process spawned and no builtin called.
C16_UnterminatedQuote ==
    [][/\ QuoteLeftOpen =>
             /\ shell_interactive \in {1, 2}
             /\ lex'.quoted # ""
             /\ procs' = procs /\ plan' = plan /\ tokens' = <<>>
       /\ QuoteResumed =>
             \E line \in ContinuationLines :
                LET st == lex_line(lex, line, ShellContext(<<>>))
                IN  /\ pc' = "continued" => lex' = st
                    /\ pc' \in {"builtin", "fork_first", "fork_single", "crashed"}
                          => tokens' = lex_finish(st)
       /\ pc = "read" /\ pc' = "returned" /\ returned'.path = "quote" =>
             /\ shell_interactive = 0
             /\ returned'.ret = 127
             /\ procs' = procs]_vars

\* A script ended inside the quote of its last line "x: the line is lexed a
\* second time and the command xx is about to be forked.
C16_StaleLineExecuted ==
    /\ shell_interactive = 2
    /\ pc = "fork_single"
    /\ continued = 1
    /\ tokens = <<<<"x", "x">>>>

V_value == environ[<<"V">>]

\* The tokens of the lines that refer to V or to ?, with the value in one piece.
verbatim_tokens(buf) ==
    CASE buf = <<"x", " ", "$", "V">>                -> <<<<"x">>, V_value>>
      [] buf = <<"a", "$", "V", " ", "b">>           -> <<<<"a">> \o V_value, <<"b">>>>
      [] buf = <<"x", " ", "\"", "$", "V", "\"">>    -> <<<<"x">>, V_value>>
      [] buf = <<"x", " ", "$", "{", "V", "}", "b">> -> <<<<"x">>, V_value \o <<"b">>>>
      [] buf = <<"x", " ", "\"", "$", "?", "\"">>    -> <<<<"x">>, Decimal(last_ret)>>
      [] buf = <<"x", " ", "$", "?">>                -> <<<<"x">>, Decimal(last_ret)>>

ReferenceLines ==
    {<<"x", " ", "$", "V">>, <<"a", "$", "V", " ", "b">>, <<"x", " ", "\"", "$", "V", "\"">>,
     <<"x", " ", "$", "{", "V", "}", "b">>, <<"x", " ", "\"", "$", "?", "\"">>,
     <<"x", " ", "$", "?">>}

\* C17: the value of a variable reference goes into the word in progress as it
\* is, whatever characters it holds, and lexing resumes right after the
\* reference: the line ends with no quote open, no escape pending, and the
\* tokens are the words of the line with the value in place of the reference.
C17_ValueCopiedVerbatim ==
    Lexed /\ buffer \in ReferenceLines
        => /\ pc = "lexed"
           /\ lex.quoted = "" /\ ~lex.backtick /\ ~lex.have_star
           /\ tokens = verbatim_tokens(buffer)

\* The line a$V b with V holding "a b" is lexed into the two tokens "aa b", "b".
C17_Witness ==
    /\ pc = "lexed"
    /\ buffer = <<"a", "$", "V", " ", "b">>
    /\ V_value = <<"a", " ", "b">>
    /\ tokens = <<<<"a", "a", " ", "b">>, <<"b">>>>

\* C18: after startup the lookup of each of cd, exit, export, help and history
\* returns the handler it was installed with, whatever names the PATH
\* directories held.
C18_BuiltinsFound ==
    \A k \in 1..Len(install_commands) :
        shell_find(shell_commands, install_commands[k].name) = install_commands[k].func

\* With an executable named cd in a PATH directory the lookup of cd finds the
\* entry without a handler, and the line cd is about to be forked as a command.
C18_BuiltinShadowed ==
    /\ <<"c", "d">> \in path_names
    /\ shell_find(shell_commands, <<"c", "d">>) = "NULL"
    /\ pc = "fork_single"
    /\ tokens = <<<<"c", "d">>>>

\* C19: no line stops the interpreter: the shell is never ended by the
\* execution of a line, whatever the line was.
C19_NoLineStopsShell == pc # "crashed"

\* The line x| with a stray pipe marker ended the shell.
C19_StrayPipeCrashed ==
    /\ pc = "crashed"
    /\ tokens = <<<<"x">>, PIPE_TOKEN>>

\* C20: in the $NAME form ? is a name only right after the $, and a name never
\* takes a ? in: x $?ab gives x and the last status followed by ab, x $V? gives
\* x and the value of V followed by ?.
C20_QuestionMarkEndsName ==
    /\ Lexed /\ buffer = <<"x", " ", "$", "?", "a", "b">>
         => tokens = <<<<"x">>, Decimal(last_ret) \o <<"a", "b">>>>
    /\ Lexed /\ buffer = <<"x", " ", "$", "V", "?">>
         => tokens = <<<<"x">>, V_value \o <<"?">>>>

\* The line x $?ab is lexed into the single token x: the name read was ?ab,
\* which has no value.
C20_StatusNameRunsOn ==
    /\ pc = "lexed"
    /\ buffer = <<"x", " ", "$", "?", "a", "b">>
    /\ tokens = <<<<"x">>>>

\* C21: the tracked child is non-zero only inside the wait loop of a foreground
\* line, so it is zero while the shell reads, lexes, runs a builtin or has
\* launched a background line; a signal taken while it is zero calls kill for no
\* process, and one taken while it is non-zero calls kill for the tracked pid.
C21_ForwardedToTrackedOnly ==
    /\ child # 0 => pc \in {"wait", "untrack"} /\ ~nowait
    /\ killed # <<>> => child # 0 /\ killed[1] = child /\ killed[2] \in {SIGINT, SIGWINCH}

\* A window-resize signal taken inside the wait loop was passed to the tracked
\* child, which is still running.
C21_Witness ==
    /\ pc = "wait"
    /\ child # 0
    /\ killed = <<child, SIGWINCH>>
    /\ child \in DOMAIN procs /\ procs[child].st = "running"

\* C22: a non-zero tracked child names a child of the shell that has not been
\* reaped, and no call of kill made by the signal handler names a process the
\* shell has reaped.
C22_TrackedChildUnreaped ==
    /\ child # 0 => child \in DOMAIN procs
    /\ killed # <<>> => killed[1] \in DOMAIN procs

\* In a two-stage pipeline the first child was reaped while the second still
\* runs, and an interrupt taken then was passed to the pid of the first.
C22_SignalToReapedPid ==
    /\ pc = "wait"
    /\ Len(stage_pids) = 2
    /\ \E k \in 1..Len(reaped) : reaped[k][1] = child
    /\ child \notin DOMAIN procs
    /\ stage_pids[2] \in DOMAIN procs /\ procs[stage_pids[2]].st = "running"
    /\ killed = <<child, SIGINT>>

\* C23: when a builtin handler is called in the shell, the argc it gets is the
\* number of strings in argv before the terminating null.
C23_ArgcCountsArgv == pc = "builtin" => plan.argcs[1] = Len(stage_args(plan, 0))

\* For the line cd & the handler of cd is about to be called with argc 2 and an
\* argv that holds the one string cd.
C23_ArgcCountsAmpersand ==
    /\ pc = "builtin"
    /\ tokens = <<<<"c", "d">>, AMP>>
    /\ nowait
    /\ plan.argcs[1] = 2
    /\ stage_args(plan, 0) = <<<<"c", "d">>>>

====
